---- MODULE Spec2Model ----
(***************************************************************************)
(* Model of api/index.py: the message adapter convert_messages_to_gemini   *)
(* and the POST /api/chat handler (probe call, optional tool call, final   *)
(* streaming call, streamed response).                                     *)
(*                                                                         *)
(* JSON values of the request body are tagged records:                     *)
(*   [t |-> "str", s], [t |-> "null"], [t |-> "bool", b], [t |-> "num", n],*)
(*   [t |-> "dict", d]  with d a sequence of <<key, value>> pairs,         *)
(*   [t |-> "list", l]  with l a sequence of values.                       *)
(***************************************************************************)
EXTENDS Integers, Sequences, FiniteSets, TLC

VARIABLES
    body,             \* the request body (a JSON dict)
    pc,               \* where the handler is
    path,             \* "none", "tool" or "text": the branch taken at line 155
    gemini_messages,  \* the transcript list (mutated in place at 192-196)
    first_part,       \* response.candidates[0].content.parts[0]
    tool_name_mcp,    \* the name sent to the Workshop
    tool_result,      \* the value bound at 167-185
    net,              \* log of outbound operations: calls and returns
    probe_resp,       \* what the probe call answered (history)
    tool_outcome,     \* what the POST to the Workshop ended in (history)
    pulled,           \* the chunks the stream generator has pulled so far
    status,           \* HTTP status of the StreamingResponse (0: none yet)
    gen,              \* the stream generator: "idle", "running", or how it ended
    out,              \* the fragments yielded to the caller, in order
    err               \* the exception caught, "" when none

vars == <<body, pc, path, gemini_messages, first_part, tool_name_mcp,
          tool_result, net, probe_resp, tool_outcome, pulled, status, gen, out, err>>

(***************************************************************************)
(* Bounds.                                                                 *)
(***************************************************************************)
MaxMsgs == 2
MaxChunks == 2

(***************************************************************************)
(* JSON values and the Python operations the code applies to them.         *)
(***************************************************************************)
JStr(s) == [t |-> "str", s |-> s]
JNull == [t |-> "null"]
JBool(b) == [t |-> "bool", b |-> b]
JNum(n) == [t |-> "num", n |-> n]
JDict(d) == [t |-> "dict", d |-> d]
JList(l) == [t |-> "list", l |-> l]

IsDict(v) == v.t = "dict"
IsList(v) == v.t = "list"
IsStr(v) == v.t = "str"

\* Python truthiness of a JSON value (`not messages`, line 133).
Truthy(v) ==
    CASE v.t = "str" -> v.s # ""
      [] v.t = "null" -> FALSE
      [] v.t = "bool" -> v.b
      [] v.t = "num" -> v.n # 0
      [] v.t = "dict" -> Len(v.d) > 0
      [] v.t = "list" -> Len(v.l) > 0

HasKey(v, k) == \E i \in 1..Len(v.d) : v.d[i][1] = k

\* dict.get(k, default), for v a dict.
Get(v, k, default) ==
    IF HasKey(v, k)
    THEN v.d[CHOOSE i \in 1..Len(v.d) : v.d[i][1] = k][2]
    ELSE default

RECURSIVE Dumps(_)
RECURSIVE DumpsItems(_, _)
RECURSIVE DumpsPairs(_, _)
\* json.dumps(v)
Dumps(v) ==
    CASE v.t = "str" -> "\"" \o v.s \o "\""
      [] v.t = "null" -> "null"
      [] v.t = "bool" -> IF v.b THEN "true" ELSE "false"
      [] v.t = "num" -> ToString(v.n)
      [] v.t = "dict" -> "{" \o DumpsPairs(v.d, 1) \o "}"
      [] v.t = "list" -> "[" \o DumpsItems(v.l, 1) \o "]"
DumpsItems(l, i) ==
    IF i > Len(l) THEN ""
    ELSE Dumps(l[i]) \o (IF i < Len(l) THEN ", " ELSE "") \o DumpsItems(l, i + 1)
DumpsPairs(d, i) ==
    IF i > Len(d) THEN ""
    ELSE "\"" \o d[i][1] \o "\": " \o Dumps(d[i][2])
         \o (IF i < Len(d) THEN ", " ELSE "") \o DumpsPairs(d, i + 1)

RECURSIVE Repr(_)
RECURSIVE ReprItems(_, _)
RECURSIVE ReprPairs(_, _)
\* repr(v) of the Python object a JSON value parses to.
Repr(v) ==
    CASE v.t = "str" -> "'" \o v.s \o "'"
      [] v.t = "null" -> "None"
      [] v.t = "bool" -> IF v.b THEN "True" ELSE "False"
      [] v.t = "num" -> ToString(v.n)
      [] v.t = "dict" -> "{" \o ReprPairs(v.d, 1) \o "}"
      [] v.t = "list" -> "[" \o ReprItems(v.l, 1) \o "]"
ReprItems(l, i) ==
    IF i > Len(l) THEN ""
    ELSE Repr(l[i]) \o (IF i < Len(l) THEN ", " ELSE "") \o ReprItems(l, i + 1)
ReprPairs(d, i) ==
    IF i > Len(d) THEN ""
    ELSE "'" \o d[i][1] \o "': " \o Repr(d[i][2])
         \o (IF i < Len(d) THEN ", " ELSE "") \o ReprPairs(d, i + 1)

\* str(v): a string is itself, anything else prints as its repr.
PyStr(v) == IF IsStr(v) THEN v.s ELSE Repr(v)

(***************************************************************************)
(* Parts of a Gemini message.                                              *)
(***************************************************************************)
TextPart(s) == [k |-> "text", text |-> s]
FunctionCallPart(name, args) == [k |-> "function_call", name |-> name, args |-> args]
FunctionResponsePart(name, content) ==
    [k |-> "function_response", name |-> name, content |-> content]

(***************************************************************************)
(* convert_messages_to_gemini, lines 71-124.                               *)
(***************************************************************************)
\* Lines 96-102: the tool_result content as a string.
ToolContentStr(item) ==
    LET tool_content == Get(item, "content", JStr(""))
    IN  IF IsStr(tool_content) THEN tool_content.s ELSE Dumps(tool_content)

\* Lines 76-78: the role a message starts with.
RoleOf(msg) ==
    LET role == Get(msg, "role", JStr("user"))
    IN  IF role = JStr("assistant") THEN JStr("model") ELSE role

\* Lines 86-115: one item of a content list. item.get on anything but a dict
\* raises AttributeError.
ConvertItem(item, role) ==
    IF ~IsDict(item) THEN [raised |-> TRUE, part |-> TextPart(""), role |-> role]
    ELSE LET item_type == Get(item, "type", JStr("text"))
         IN  IF item_type = JStr("tool_use")
             THEN [raised |-> FALSE,
                   part |-> FunctionCallPart(Get(item, "name", JStr("")),
                                             Get(item, "input", JDict(<<>>))),
                   role |-> role]
             ELSE IF item_type = JStr("tool_result")
             THEN [raised |-> FALSE,
                   part |-> FunctionResponsePart(
                                Get(item, "tool_use_id", Get(item, "name", JStr(""))),
                                ToolContentStr(item)),
                   role |-> JStr("user")]
             ELSE [raised |-> FALSE,
                   part |-> TextPart(PyStr(Get(item, "text", JStr(PyStr(item))))),
                   role |-> role]

RECURSIVE ConvertItems(_, _, _, _)
\* Lines 84-115: the loop over a content list, from item i on.
ConvertItems(l, i, parts, role) ==
    IF i > Len(l) THEN [raised |-> FALSE, parts |-> parts, role |-> role]
    ELSE LET r == ConvertItem(l[i], role)
         IN  IF r.raised THEN [raised |-> TRUE, parts |-> parts, role |-> role]
             ELSE ConvertItems(l, i + 1, Append(parts, r.part), r.role)

\* Lines 75-121: one message; `add` is what it appends to gemini_messages.
ConvertMessage(msg) ==
    IF ~IsDict(msg) THEN [raised |-> TRUE, add |-> <<>>]
    ELSE LET role == RoleOf(msg)
             content == Get(msg, "content", JStr(""))
         IN  IF IsList(content)
             THEN LET r == ConvertItems(content.l, 1, <<>>, role)
                  IN  IF r.raised THEN [raised |-> TRUE, add |-> <<>>]
                      ELSE [raised |-> FALSE,
                            add |-> <<[role |-> r.role, parts |-> r.parts]>>]
             ELSE IF IsStr(content)
             THEN [raised |-> FALSE,
                   add |-> <<[role |-> role, parts |-> <<TextPart(content.s)>>]>>]
             ELSE [raised |-> FALSE, add |-> <<>>]

RECURSIVE ConvertFrom(_, _, _)
ConvertFrom(l, i, acc) ==
    IF i > Len(l) THEN [raised |-> FALSE, msgs |-> acc]
    ELSE LET r == ConvertMessage(l[i])
         IN  IF r.raised THEN [raised |-> TRUE, msgs |-> <<>>]
             ELSE ConvertFrom(l, i + 1, acc \o r.add)

\* Iterating a truthy value that is not a list either raises TypeError (a
\* number, True) or yields strings (the characters of a string, the keys of a
\* dict), on which msg.get raises AttributeError.
convert_messages_to_gemini(messages) ==
    IF ~IsList(messages) THEN [raised |-> TRUE, msgs |-> <<>>]
    ELSE ConvertFrom(messages.l, 1, <<>>)

(***************************************************************************)
(* What the handler's collaborators can answer.                            *)
(***************************************************************************)
\* Request bodies' messages.
M_user == JDict(<< <<"role", JStr("user")>>, <<"content", JStr("hi")>> >>)
M_assistant == JDict(<< <<"role", JStr("assistant")>>, <<"content", JStr("yo")>> >>)
M_system == JDict(<< <<"role", JStr("system")>>, <<"content", JStr("be brief")>> >>)
M_norole == JDict(<< <<"content", JStr("x")>> >>)
M_toolresult ==
    JDict(<< <<"role", JStr("assistant")>>,
             <<"content", JList(<<
                 JDict(<< <<"type", JStr("tool_result")>>, <<"name", JStr("FS_read_file")>>,
                          <<"content", JDict(<< <<"ok", JBool(TRUE)>> >>)>> >>),
                 JDict(<< <<"type", JStr("text")>>, <<"text", JStr("t")>> >>) >>)>> >>)
M_tooluse ==
    JDict(<< <<"role", JStr("assistant")>>,
             <<"content", JList(<<
                 JDict(<< <<"type", JStr("tool_use")>>, <<"name", JStr("FS_read_file")>>,
                          <<"input", JDict(<< <<"path", JStr("main.py")>> >>)>> >>) >>)>> >>)
M_notype == JDict(<< <<"role", JStr("user")>>,
                     <<"content", JList(<< JDict(<< <<"foo", JNum(1)>> >>) >>)>> >>)
M_nullcontent == JDict(<< <<"role", JStr("user")>>, <<"content", JNull>> >>)
M_rawpart == JDict(<< <<"role", JStr("user")>>, <<"content", JList(<< JStr("raw") >>)>> >>)
M_nondict == JStr("junk")

AdapterMsgs == {M_user, M_assistant, M_system, M_norole, M_toolresult, M_tooluse,
                M_notype, M_nullcontent, M_rawpart, M_nondict}
ChatMsgs == {M_user, M_toolresult, M_nullcontent, M_nondict}

SeqsUpTo(S, n) == UNION {[1..k -> S] : k \in 0..n}

\* The values of the body's "messages" field that are not lists of messages.
OddMessages == {JNull, JStr("hi"), JStr(""), JNum(0), JNum(7)}

Bodies ==
    {JDict(<< <<"messages", JList(l)>> >>) : l \in SeqsUpTo(ChatMsgs, MaxMsgs)}
    \cup {JDict(<< <<"messages", m>> >>) : m \in OddMessages}
    \cup {JDict(<<>>)}

\* Parts of a probe response. fc: whether the part has a function_call
\* attribute ("absent"), has one that is unset, or one that is set.
FS_read_file == <<"FS", "_", "read", "_", "file">>
FS_list_files == <<"FS", "_", "list", "_", "files">>
P_text == [fc |-> "unset", name |-> <<>>, args |-> JDict(<<>>), text |-> "hello"]
P_noattr == [fc |-> "absent", name |-> <<>>, args |-> JDict(<<>>), text |-> "hello"]
P_read == [fc |-> "set", name |-> FS_read_file,
           args |-> JDict(<< <<"path", JStr("main.py")>> >>), text |-> ""]
P_list == [fc |-> "set", name |-> FS_list_files,
           args |-> JDict(<< <<"path", JStr(".")>> >>), text |-> ""]
P_noname == [fc |-> "set", name |-> <<>>,
             args |-> JDict(<< <<"path", JStr(".")>> >>), text |-> ""]

Candidate(hasContent, parts) == [hasContent |-> hasContent, parts |-> parts]
ProbeResp(raised, candidates) == [raised |-> raised, candidates |-> candidates]

ProbeOutcomes ==
    {ProbeResp(TRUE, <<>>),
     ProbeResp(FALSE, <<>>),
     ProbeResp(FALSE, <<Candidate(FALSE, <<>>)>>),
     ProbeResp(FALSE, <<Candidate(TRUE, <<>>)>>)}
    \cup {ProbeResp(FALSE, <<Candidate(TRUE, ps)>>) :
            ps \in {<<P_text>>, <<P_noattr>>, <<P_read>>, <<P_list, P_text>>,
                    <<P_noname>>, <<P_text, P_read>>}}

\* What the POST to the Workshop can end in.
ToolOutcomes ==
    {[kind |-> "ok", code |-> 200, json |-> JDict(<< <<"content", JStr("print(1)")>> >>), e |-> ""],
     [kind |-> "ok", code |-> 200, json |-> JStr("done"), e |-> ""],
     [kind |-> "network", code |-> 0, json |-> JNull, e |-> "connection refused"],
     [kind |-> "timeout", code |-> 0, json |-> JNull, e |-> "timed out"],
     [kind |-> "status", code |-> 500, json |-> JNull, e |-> "boom"],
     [kind |-> "status", code |-> 404, json |-> JNull, e |-> "no such tool"],
     [kind |-> "badjson", code |-> 200, json |-> JNull, e |-> "Expecting value"]}

\* Chunks of a streamed response. hasFeedback: whether the chunk has a
\* prompt_feedback with a block_reason attribute; reason: the block_reason (""
\* when there is none); msg: the block_reason_message.
SPart(hasText, text) == [hasText |-> hasText, text |-> text]
Chunk(parts, hasFeedback, reason, msg) ==
    [parts |-> parts, hasFeedback |-> hasFeedback, reason |-> reason, msg |-> msg]

Chunks ==
    {Chunk(<<SPart(TRUE, "ab")>>, TRUE, "", ""),
     Chunk(<<SPart(TRUE, ""), SPart(TRUE, "cd"), SPart(FALSE, "")>>, FALSE, "", ""),
     Chunk(<<>>, TRUE, "", ""),
     Chunk(<<SPart(TRUE, "ef")>>, TRUE, "SAFETY", ""),
     Chunk(<<>>, TRUE, "OTHER", "blocked by policy"),
     Chunk(<<SPart(FALSE, "")>>, FALSE, "", "blocked by policy")}

(***************************************************************************)
(* The chat handler, lines 127-261.                                        *)
(***************************************************************************)
NoPart == [fc |-> "absent", name |-> <<>>, args |-> JDict(<<>>), text |-> ""]

NoOutcome == [kind |-> "none", code |-> 0, json |-> JNull, e |-> ""]

\* The state before the handler runs, lines 128-131.
Fresh ==
    /\ path = "none"
    /\ gemini_messages = <<>>
    /\ first_part = NoPart
    /\ tool_name_mcp = <<>>
    /\ tool_result = JStr("")
    /\ net = <<>>
    /\ probe_resp = ProbeResp(FALSE, <<>>)
    /\ tool_outcome = NoOutcome
    /\ pulled = <<>>
    /\ status = 0
    /\ gen = "idle"
    /\ out = <<>>
    /\ err = ""

Init == body \in Bodies /\ pc = "start" /\ Fresh

Call(op, arg) == [op |-> op, ev |-> "call", arg |-> arg]
Ret(op) == [op |-> op, ev |-> "ret", arg |-> <<>>]

\* Mutant of NoMessages: only an absent field counts as no messages.
NoMessagesAbsentOnly(b) == ~HasKey(b, "messages")

\* Lines 132-133: the messages of the body, and whether there are none.
MessagesOf(b) == Get(b, "messages", JList(<<>>))
NoMessages(b) == ~Truthy(MessagesOf(b))

\* Mutant of ProbeInvalid: the check of the parts is left out.
ProbeInvalidNoPartsCheck(resp) ==
    \/ Len(resp.candidates) = 0
    \/ ~resp.candidates[1].hasContent

\* Line 147: the safety check of the probe response.
ProbeInvalid(resp) ==
    \/ Len(resp.candidates) = 0
    \/ ~resp.candidates[1].hasContent
    \/ Len(resp.candidates[1].parts) = 0

\* Line 152 raises when there is no first part to take.
HasFirstPart(resp) ==
    /\ Len(resp.candidates) > 0
    /\ resp.candidates[1].hasContent
    /\ Len(resp.candidates[1].parts) > 0

\* Mutants of IsToolCall: only hasattr is tested; the name is not tested.
IsToolCallAttrOnly(part) == part.fc # "absent"
IsToolCallNoName(part) == part.fc = "set"

\* Line 155: whether the first part asks for a tool.
IsToolCall(part) == part.fc = "set" /\ Len(part.name) > 0

RECURSIVE ReplaceFirst(_, _, _)
\* str.replace(old, new, 1) on a name split at its underscores.
ReplaceFirst(toks, old, new) ==
    IF toks = <<>> THEN <<>>
    ELSE IF Head(toks) = old THEN <<new>> \o Tail(toks)
    ELSE <<Head(toks)>> \o ReplaceFirst(Tail(toks), old, new)

\* Line 164.
ToolNameMcp(tool_name) == ReplaceFirst(tool_name, "_", ": ")

\* Mutant of Caught: the last except clause is missing.
CaughtWithoutLastClause(o) ==
    CASE o.kind = "ok" -> "none"
      [] o.kind \in {"network", "timeout"} -> "RequestError"
      [] o.kind = "status" -> "HTTPStatusError"
      [] o.kind = "badjson" -> "uncaught"

\* Lines 169-186: the except clause that catches what the POST ended in.
Caught(o) ==
    CASE o.kind = "ok" -> "none"
      [] o.kind \in {"network", "timeout"} -> "RequestError"
      [] o.kind = "status" -> "HTTPStatusError"
      [] o.kind = "badjson" -> "Exception"

ErrorValue(text) == JDict(<< <<"error", JStr(text)>> >>)

\* Lines 167-186: the value tool_result is bound to.
ToolResultOf(o) ==
    CASE Caught(o) = "none" -> o.json
      [] Caught(o) = "RequestError" ->
            ErrorValue("Network error contacting Workshop: " \o o.e)
      [] Caught(o) = "HTTPStatusError" ->
            ErrorValue("Workshop server returned error " \o ToString(o.code) \o ": " \o o.e)
      [] Caught(o) = "Exception" ->
            ErrorValue("Unexpected error calling tool: " \o o.e)
      [] OTHER -> JStr("")

\* Mutant of ToolMessages: the result is appended before the model's request.
ToolMessagesSwapped(part, result) ==
    << [role |-> JStr("user"),
        parts |-> <<FunctionResponsePart([t |-> "name", toks |-> part.name],
                                         Dumps(result))>>],
       [role |-> JStr("model"), parts |-> <<part>>] >>

\* Lines 189-196: the two messages appended after the tool call.
ToolMessages(part, result) ==
    << [role |-> JStr("model"), parts |-> <<part>>],
       [role |-> JStr("user"),
        parts |-> <<FunctionResponsePart([t |-> "name", toks |-> part.name],
                                         Dumps(result))>>] >>

\* Mutant of Errored: the status code is left at its default.
ErroredAs200(e) ==
    /\ status' = 200
    /\ out' = <<"An error occurred: " \o e>>
    /\ err' = e
    /\ pc' = "done"

\* Lines 256-261: the handler's except clause.
Errored(e) ==
    /\ status' = 500
    /\ out' = <<"An error occurred: " \o e>>
    /\ err' = e
    /\ pc' = "done"

\* Lines 132-144: up to the probe call.
ChatStart ==
    /\ pc = "start"
    /\ UNCHANGED <<body, path, first_part, tool_name_mcp, tool_result, probe_resp,
                   tool_outcome, pulled, gen>>
    /\ IF NoMessages(body)
       THEN /\ status' = 400
            /\ out' = <<"No messages provided.">>
            /\ pc' = "done"
            /\ UNCHANGED <<gemini_messages, net, err>>
       ELSE LET r == convert_messages_to_gemini(MessagesOf(body))
            IN  IF r.raised
                THEN /\ Errored("convert_messages_to_gemini")
                     /\ UNCHANGED <<gemini_messages, net>>
                ELSE /\ gemini_messages' = r.msgs
                     /\ net' = Append(net, Call("probe", r.msgs))
                     /\ pc' = "probing"
                     /\ UNCHANGED <<status, out, err>>

\* Lines 144-174 and 226-254: the probe returns; the handler goes on to the
\* POST to the Workshop, or to the streaming call of the text path.
ProbeReturn ==
    /\ pc = "probing"
    /\ UNCHANGED <<body, gemini_messages, tool_result, tool_outcome, pulled>>
    /\ \E resp \in ProbeOutcomes, streamRaises \in BOOLEAN :
        LET net1 == Append(net, Ret("probe"))
        IN  /\ probe_resp' = resp
            /\ IF resp.raised
               THEN /\ Errored("generate_content")
                    /\ net' = net1
                    /\ UNCHANGED <<path, first_part, tool_name_mcp, gen>>
               ELSE IF ProbeInvalid(resp)
               THEN /\ status' = 500
                    /\ out' = <<"Sorry, I received an unexpected response from the AI.">>
                    /\ pc' = "done"
                    /\ net' = net1
                    /\ UNCHANGED <<path, first_part, tool_name_mcp, gen, err>>
               ELSE IF ~HasFirstPart(resp)
               THEN /\ Errored("first_part")
                    /\ net' = net1
                    /\ UNCHANGED <<path, first_part, tool_name_mcp, gen>>
               ELSE LET part == resp.candidates[1].parts[1]
                    IN  /\ first_part' = part
                        /\ IF IsToolCall(part)
                           THEN /\ path' = "tool"
                                /\ tool_name_mcp' = ToolNameMcp(part.name)
                                /\ net' = Append(net1,
                                      Call("tool", [name |-> ToolNameMcp(part.name),
                                                    params |-> part.args]))
                                /\ pc' = "invoking"
                                /\ UNCHANGED <<status, gen, out, err>>
                           ELSE /\ path' = "text"
                                /\ net' = net1 \o <<Call("stream", gemini_messages), Ret("stream")>>
                                /\ UNCHANGED tool_name_mcp
                                /\ IF streamRaises
                                   THEN Errored("generate_content stream") /\ UNCHANGED gen
                                   ELSE /\ status' = 200
                                        /\ gen' = "running"
                                        /\ pc' = "streaming"
                                        /\ UNCHANGED <<out, err>>

\* Lines 175-224: the POST ends; the handler appends the two messages and
\* makes the final streaming call.
ToolReturn ==
    /\ pc = "invoking"
    /\ UNCHANGED <<body, path, first_part, tool_name_mcp, probe_resp, pulled>>
    /\ \E o \in ToolOutcomes, streamRaises \in BOOLEAN :
        LET net1 == Append(net, Ret("tool"))
        IN  /\ tool_outcome' = o
            /\ IF Caught(o) = "uncaught"
               THEN /\ Errored("call_tool")
                    /\ net' = net1
                    /\ UNCHANGED <<gemini_messages, tool_result, gen>>
               ELSE LET extended == gemini_messages \o ToolMessages(first_part, ToolResultOf(o))
                    IN  /\ tool_result' = ToolResultOf(o)
                        /\ gemini_messages' = extended
                        /\ net' = net1 \o <<Call("stream", extended), Ret("stream")>>
                        /\ IF streamRaises
                           THEN Errored("generate_content stream") /\ UNCHANGED gen
                           ELSE /\ status' = 200
                                /\ gen' = "running"
                                /\ pc' = "streaming"
                                /\ UNCHANGED <<out, err>>

\* Lines 211-214 and 241-244: the text fragments a chunk yields.
RECURSIVE TextsOf(_)
TextsOf(parts) ==
    IF parts = <<>> THEN <<>>
    ELSE (IF Head(parts).hasText /\ Head(parts).text # ""
          THEN <<Head(parts).text>> ELSE <<>>) \o TextsOf(Tail(parts))

\* Mutant of Blocked: the message is tested instead of the reason.
BlockedOnMessage(c) == c.hasFeedback /\ c.msg # ""

\* Lines 216 and 246: whether a chunk carries a safety block.
Blocked(c) == c.hasFeedback /\ c.reason # ""

\* Lines 218 and 248.
BlockFragment(c) ==
    "\n[Error: Response blocked due to " \o (IF c.msg # "" THEN c.msg ELSE c.reason) \o "]"

\* Lines 222 and 252.
StreamErrorFragment(p, e) ==
    IF p = "tool" THEN "\n[Error streaming final response: " \o e \o "]"
    ELSE "\n[Error streaming text response: " \o e \o "]"

\* Lines 206-222 and 236-252: one turn of the generator's loop. The stream
\* gives a chunk, ends, or raises.
StreamPull ==
    /\ pc = "streaming"
    /\ UNCHANGED <<body, path, gemini_messages, first_part, tool_name_mcp,
                   tool_result, net, probe_resp, tool_outcome, status>>
    /\ \E ev \in {"chunk", "end", "raise"} :
        CASE ev = "chunk" ->
                /\ Len(pulled) < MaxChunks
                /\ \E c \in Chunks :
                    /\ pulled' = Append(pulled, c)
                    /\ IF ~Blocked(c)
                       THEN /\ out' = out \o TextsOf(c.parts)
                            /\ UNCHANGED <<pc, gen, err>>
                       ELSE /\ out' = out \o TextsOf(c.parts) \o <<BlockFragment(c)>>
                            /\ gen' = "blocked"
                            /\ pc' = "done"
                            /\ UNCHANGED err
          [] ev = "end" ->
                /\ gen' = "exhausted"
                /\ pc' = "done"
                /\ UNCHANGED <<pulled, out, err>>
          [] ev = "raise" ->
                /\ out' = Append(out, StreamErrorFragment(path, "stream"))
                /\ gen' = "raised"
                /\ err' = "stream"
                /\ pc' = "done"
                /\ UNCHANGED pulled

Next == ChatStart \/ ProbeReturn \/ ToolReturn \/ StreamPull

Spec == Init /\ [][Next]_vars

(***************************************************************************)
(* The adapter alone: its inputs are drawn at the start, one step applies  *)
(* it.                                                                     *)
(***************************************************************************)
AdapterInit ==
    /\ body \in {JDict(<< <<"messages", JList(l)>> >>) : l \in SeqsUpTo(AdapterMsgs, MaxMsgs)}
    /\ pc = "adapt"
    /\ Fresh

Adapt ==
    /\ pc = "adapt"
    /\ LET r == convert_messages_to_gemini(MessagesOf(body))
       IN  /\ gemini_messages' = r.msgs
           /\ err' = IF r.raised THEN "convert_messages_to_gemini" ELSE ""
    /\ pc' = "adapted"
    /\ UNCHANGED <<body, path, first_part, tool_name_mcp, tool_result, net,
                   probe_resp, tool_outcome, pulled, status, gen, out>>

AdapterSpec == AdapterInit /\ [][Adapt]_vars

(***************************************************************************)
(* What the properties read off a state.                                   *)
(***************************************************************************)
CallsAt(op) == {i \in DOMAIN net : net[i].op = op /\ net[i].ev = "call"}
Calls(op) == Cardinality(CallsAt(op))
CallArg(op) == net[CHOOSE i \in CallsAt(op) : TRUE].arg
Returned(op) == \E i \in DOMAIN net : net[i].op = op /\ net[i].ev = "ret"

\* The probe answered with a first part to look at.
ProbeAnswered ==
    /\ Returned("probe")
    /\ ~probe_resp.raised
    /\ Len(probe_resp.candidates) > 0
    /\ probe_resp.candidates[1].hasContent
    /\ Len(probe_resp.candidates[1].parts) > 0

\* The probe answered without candidates, content or parts.
ProbeAnsweredInvalid ==
    /\ Returned("probe")
    /\ ~probe_resp.raised
    /\ \/ Len(probe_resp.candidates) = 0
       \/ ~probe_resp.candidates[1].hasContent
       \/ Len(probe_resp.candidates[1].parts) = 0

ProbeFirstPart == probe_resp.candidates[1].parts[1]

\* The probe's first part declares a function call with a non-empty name.
ToolRequested ==
    /\ ProbeAnswered
    /\ ProbeFirstPart.fc = "set"
    /\ ProbeFirstPart.name # <<>>

ToolFailed == tool_outcome.kind \in {"network", "timeout", "status", "badjson"}

IsErrorValue(v) ==
    /\ v.t = "dict"
    /\ Len(v.d) = 1
    /\ v.d[1][1] = "error"
    /\ v.d[1][2].t = "str"

RECURSIVE Flat(_)
\* The parts of a sequence of chunks, in arrival order.
Flat(chunks) == IF chunks = <<>> THEN <<>> ELSE Head(chunks).parts \o Flat(Tail(chunks))

IsText(part) == part.hasText /\ part.text # ""
NonEmptyTexts(chunks) ==
    LET ps == SelectSeq(Flat(chunks), IsText)
    IN  [i \in 1..Len(ps) |-> ps[i].text]

RECURSIVE Joined(_)
\* The concatenation of a sequence of strings.
Joined(ss) == IF ss = <<>> THEN "" ELSE Head(ss) \o Joined(Tail(ss))

RECURSIVE AnswerText(_)
\* The text of every part of a sequence of parts, concatenated.
AnswerText(ps) ==
    IF ps = <<>> THEN ""
    ELSE (IF Head(ps).hasText THEN Head(ps).text ELSE "") \o AnswerText(Tail(ps))

CarriesBlock(c) == c.hasFeedback /\ c.reason # ""
BlockSeen == \E i \in DOMAIN pulled : CarriesBlock(pulled[i])

IsDiagnostic(f) ==
    \/ \E c \in Chunks : f = BlockFragment(c)
    \/ \E p \in {"tool", "text"} : f = StreamErrorFragment(p, "stream")

(***************************************************************************)
(* Properties.                                                             *)
(***************************************************************************)

\* C1: on the tool path the transcript of the final streaming call is the
\* probe call's transcript, in order, followed by exactly two messages: the
\* model's message carrying the probe's first part, then the tool-result
\* message carrying the stringified tool result; this is so whether the tool
\* call succeeded or failed, and the final call is made once the tool returned.
TranscriptExtension ==
    /\ (ToolRequested /\ Returned("tool")) => Calls("stream") = 1
    /\ (ToolRequested /\ Calls("stream") = 1) =>
          LET p == CallArg("probe")
              f == CallArg("stream")
              n == Len(p)
          IN  /\ Len(f) = n + 2
              /\ SubSeq(f, 1, n) = p
              /\ f[n + 1].role = JStr("model")
              /\ f[n + 1].parts = <<ProbeFirstPart>>
              /\ f[n + 2].role = JStr("user")
              /\ Len(f[n + 2].parts) = 1
              /\ f[n + 2].parts[1].k = "function_response"
              /\ f[n + 2].parts[1].content = Dumps(tool_result)
              /\ IF ToolFailed THEN IsErrorValue(tool_result)
                               ELSE tool_result = tool_outcome.json

\* A final call made after a failed tool call, on a transcript that was not empty.
TranscriptExtensionWitness ==
    /\ ToolRequested
    /\ ToolFailed
    /\ Calls("stream") = 1
    /\ Len(CallArg("probe")) = 2
    /\ Len(CallArg("stream")) = 4

\* C2: a failed tool call (network error, timeout, non-2xx status, malformed
\* body) yields the value {error: <string>}; the handler appends the two
\* messages and makes the final streaming call; the tool is called once, and
\* the response has an error status only if the final call itself raised.
ToolFailureIsValue ==
    ToolFailed =>
        /\ IsErrorValue(tool_result)
        /\ Calls("tool") = 1
        /\ Calls("stream") = 1
        /\ LET f == CallArg("stream")
           IN  /\ Len(f) = Len(CallArg("probe")) + 2
               /\ f[Len(f)].parts[1].content = Dumps(tool_result)
        /\ status \in {200, 500}
        /\ status = 500 => err = "generate_content stream"
        /\ status = 200 => pc \in {"streaming", "done"}

\* A timed-out tool call after which the final answer was streamed to its end.
ToolFailureIsValueWitness ==
    /\ tool_outcome.kind = "timeout"
    /\ status = 200
    /\ gen = "exhausted"
    /\ Len(out) > 0

\* C3: a request whose messages field is empty or absent ends with status 400
\* and the "no messages" fragment, and performs no outbound operation.
EmptyMessagesIs400 ==
    (pc # "start" /\ (~HasKey(body, "messages") \/ Get(body, "messages", JNull) = JList(<<>>))) =>
        /\ pc = "done"
        /\ status = 400
        /\ out = <<"No messages provided.">>
        /\ net = <<>>
        /\ gen = "idle"

\* The request {"messages": []} answered.
EmptyMessagesIs400Witness ==
    /\ HasKey(body, "messages")
    /\ Get(body, "messages", JNull) = JList(<<>>)
    /\ pc = "done"
    /\ status = 400

\* Whether a message's content list holds a tool_result part, and the role
\* the adapter is said to give the message.
ClaimHasToolResult(msg) ==
    LET content == Get(msg, "content", JStr(""))
    IN  /\ content.t = "list"
        /\ \E i \in 1..Len(content.l) :
              /\ content.l[i].t = "dict"
              /\ Get(content.l[i], "type", JStr("text")) = JStr("tool_result")
ClaimedRole(msg) ==
    IF ClaimHasToolResult(msg) THEN JStr("user")
    ELSE IF Get(msg, "role", JStr("user")) = JStr("assistant") THEN JStr("model")
    ELSE JStr("user")

\* C4 (as claimed): the adapted role is "model" for "assistant", "user" for any
\* other declared role or none, and the tool-result role ("user") when the
\* content list holds a tool_result part. Stated for the runs in which every
\* message was adapted.
AdapterRoleMapping ==
    (pc = "adapted" /\ err = "" /\ Len(gemini_messages) = Len(MessagesOf(body).l)) =>
        \A i \in 1..Len(gemini_messages) :
            gemini_messages[i].role = ClaimedRole(MessagesOf(body).l[i])

\* The place of an outbound operation in the order probe, tool, stream.
Rank(op) == CASE op = "probe" -> 1 [] op = "tool" -> 2 [] op = "stream" -> 3

\* C5: at most one probe call, one tool call and one streaming call; every
\* call returns before the next one starts; they come in the order probe,
\* tool, stream; the tool is called exactly once when the probe's first part
\* requests a tool, and never otherwise.
OutboundOrder ==
    /\ Calls("probe") <= 1 /\ Calls("tool") <= 1 /\ Calls("stream") <= 1
    /\ \A i \in DOMAIN net :
          /\ (net[i].ev = "call" /\ i < Len(net)) => net[i + 1] = Ret(net[i].op)
          /\ net[i].ev = "ret" => (i > 1 /\ net[i - 1].ev = "call" /\ net[i - 1].op = net[i].op)
    /\ \A i, j \in DOMAIN net :
          (i < j /\ net[i].ev = "call" /\ net[j].ev = "call") => Rank(net[i].op) < Rank(net[j].op)
    /\ Calls("tool") = 1 => net[1].op = "probe"
    /\ Calls("stream") = 1 => net[1].op = "probe"
    /\ (ToolRequested /\ Calls("stream") = 1) => Returned("tool")
    /\ Calls("tool") = (IF ToolRequested THEN 1 ELSE 0)

\* A request that made all three calls and finished.
OutboundOrderWitness ==
    /\ Len(net) = 6
    /\ pc = "done"
    /\ gen = "exhausted"

\* C6: when the probe answers and its first part requests no tool (text, or a
\* function call with an empty name), the tool is never called, there is one
\* streaming call, on the probe call's transcript, and the caller receives the
\* stream's text in order and unmodified: the fragments of the chunks pulled,
\* followed only by the diagnostic of a block or of a stream failure.
NoToolStreamsSameTranscript ==
    (ProbeAnswered /\ ~ToolRequested) =>
        /\ Calls("tool") = 0
        /\ Calls("stream") = 1
        /\ CallArg("stream") = CallArg("probe")
        /\ gemini_messages = CallArg("probe")
        /\ gen \in {"running", "exhausted"} =>
              /\ out = NonEmptyTexts(pulled)
              /\ Joined(out) = AnswerText(Flat(pulled))
        /\ gen \in {"blocked", "raised"} =>
              /\ Len(out) > 0
              /\ SubSeq(out, 1, Len(out) - 1) = NonEmptyTexts(pulled)
              /\ IsDiagnostic(out[Len(out)])

\* A text answer of two fragments streamed to its end after a function call
\* without a name.
NoToolStreamsSameTranscriptWitness ==
    /\ ProbeAnswered
    /\ ProbeFirstPart.fc = "set"
    /\ ProbeFirstPart.name = <<>>
    /\ gen = "exhausted"
    /\ out = <<"ab", "cd">>

\* C7 (as claimed): every failure, the consumption of the stream included, ends
\* in a single diagnostic fragment with status 500.
EveryFailureIs500 ==
    err # "" => (status = 500 /\ Len(out) = 1)

\* C7 (amended): a failure of the adapter, of the probe call or of the
\* streaming call is caught by the handler and answered with a single
\* diagnostic fragment and status 500; a failure while the stream is consumed
\* is caught in the generator, which appends one diagnostic fragment to the
\* fragments already forwarded, the status staying 200; either way the
\* request is over.
FailuresAreReported ==
    /\ (err # "" /\ gen # "raised") =>
          /\ status = 500
          /\ out = <<"An error occurred: " \o err>>
          /\ pc = "done"
    /\ gen = "raised" =>
          /\ err # ""
          /\ status = 200
          /\ Len(out) > 0
          /\ out[Len(out)] = StreamErrorFragment(IF ToolRequested THEN "tool" ELSE "text", err)
          /\ SubSeq(out, 1, Len(out) - 1) = NonEmptyTexts(pulled)
          /\ pc = "done"
    /\ (pc # "start" /\ Truthy(MessagesOf(body)) /\ MessagesOf(body).t # "list") =>
          (err # "" /\ status = 500)
    /\ (Returned("probe") /\ probe_resp.raised) => (err # "" /\ status = 500)
    /\ status \in {0, 200, 400, 500}

\* A stream that failed after a fragment had been forwarded.
FailuresAreReportedWitness ==
    /\ gen = "raised"
    /\ err = "stream"
    /\ Len(out) = 2
    /\ status = 200

\* C8: an invalid probe response (no candidates, no content, or no parts) ends
\* the request with status 500 and the "unexpected response" fragment; no tool
\* call and no streaming call is made and the probe is not repeated.
InvalidProbeEnds ==
    ProbeAnsweredInvalid =>
        /\ pc = "done"
        /\ status = 500
        /\ out = <<"Sorry, I received an unexpected response from the AI.">>
        /\ Calls("probe") = 1
        /\ Calls("tool") = 0
        /\ Calls("stream") = 0
        /\ gen = "idle"

\* A probe response whose content has no parts.
InvalidProbeEndsWitness ==
    /\ ProbeAnsweredInvalid
    /\ Len(probe_resp.candidates) = 1
    /\ probe_resp.candidates[1].hasContent
    /\ status = 500

\* C9: once a chunk carries a safety block the stream stops: the blocking
\* chunk is the last one pulled, the non-empty text fragments of the chunks
\* pulled were forwarded once each in arrival order, and exactly one diagnostic
\* fragment follows them as the last fragment; this on both paths.
BlockStopsStream ==
    BlockSeen =>
        /\ \A i \in DOMAIN pulled : CarriesBlock(pulled[i]) <=> i = Len(pulled)
        /\ pc = "done"
        /\ gen = "blocked"
        /\ Len(out) = Len(NonEmptyTexts(pulled)) + 1
        /\ SubSeq(out, 1, Len(out) - 1) = NonEmptyTexts(pulled)
        /\ out[Len(out)] = BlockFragment(pulled[Len(pulled)])
        /\ \A i \in 1..(Len(out) - 1) : ~IsDiagnostic(out[i])

\* On the tool path, a block in the second chunk, both chunks carrying text.
BlockStopsStreamWitness ==
    /\ ToolRequested
    /\ Len(pulled) = 2
    /\ CarriesBlock(pulled[2])
    /\ gen = "blocked"
    /\ out = <<"ab", "ef", BlockFragment(pulled[2])>>

\* C10 (as claimed): the adapter never raises and returns one adapted message
\* per input message.
AdapterTotalLengthPreserving ==
    pc = "adapted" =>
        /\ err = ""
        /\ Len(gemini_messages) = Len(MessagesOf(body).l)

====
